---- MODULE Spec2Model ----
(***************************************************************************)
(* Bulk ID-card generator: record import, photo matching and batch export. *)
(* State machine of BulkGeneratorPanel (record store), BulkDataImport      *)
(* (spreadsheet import, photo upload) and BulkExporter (validation,        *)
(* sequential rendering, ZIP packaging).                                   *)
(*                                                                         *)
(* Strings are sequences of one-character strings.  Sequences are 1-based, *)
(* so index i of the model is index i-1 of the source.                     *)
(***************************************************************************)
EXTENDS Integers, Sequences, FiniteSets, TLC

\* ------------------------------------------------------------------ bounds
MaxRecords == 3
MaxRows == 2
MaxClock == 1
MaxPhotos == 1
MaxImports == 2
MaxRuns == 2
MaxEdits == 1
MaxUploads == 1
MaxEditRuns == 1

MaxLineLen == 5

\* ---------------------------------------------------------------- strings
UpperCase == <<"A", "B", "C", "D", "E", "F", "G", "H", "I", "J", "K", "L", "M", "N", "O", "P", "Q", "R", "S", "T", "U", "V", "W", "X", "Y", "Z">>

LowerCase == <<"a", "b", "c", "d", "e", "f", "g", "h", "i", "j", "k", "l", "m", "n", "o", "p", "q", "r", "s", "t", "u", "v", "w", "x", "y", "z">>

Letters == {UpperCase[k] : k \in 1..Len(UpperCase)} \cup {LowerCase[k] : k \in 1..Len(LowerCase)}

Digits == {"0", "1", "2", "3", "4", "5", "6", "7", "8", "9"}

\* the lower-case letter of every upper-case letter
LowerTable == [c \in {UpperCase[k] : k \in 1..Len(UpperCase)} |->
                  LowerCase[CHOOSE k \in 1..Len(UpperCase) : UpperCase[k] = c]]

Lower(c) == IF c \in DOMAIN LowerTable THEN LowerTable[c] ELSE c

ToLowerCase(s) == [k \in 1..Len(s) |-> Lower(s[k])]

RECURSIVE TrimStart(_)
TrimStart(s) == IF s # <<>> /\ Head(s) = " " THEN TrimStart(Tail(s)) ELSE s

RECURSIVE TrimEnd(_)
TrimEnd(s) == IF s # <<>> /\ s[Len(s)] = " " THEN TrimEnd(SubSeq(s, 1, Len(s) - 1)) ELSE s

Trim(s) == TrimEnd(TrimStart(s))

IsAlnum(c) == c \in Letters \cup Digits

IsAlnumOrSpace(c) == IsAlnum(c) \/ c = " "

IsSeparator(c) == c \in {" ", "_", "-"}

IsQuote(c) == c \in {"'", "\""}

NotSeparator(c) == ~IsSeparator(c)

NotQuote(c) == ~IsQuote(c)

Includes(s, sub) == \E k \in 1..(Len(s) - Len(sub) + 1) : SubSeq(s, k, k + Len(sub) - 1) = sub

\* findIndex over the per-element results of the test: the first TRUE, 0 when there is none
FindIndex(hits) == IF \E k \in 1..Len(hits) : hits[k]
                   THEN CHOOSE k \in 1..Len(hits) : hits[k] /\ \A j \in 1..(k - 1) : ~hits[j]
                   ELSE 0

\* ------------------------------------------------------- values and types
Null == <<>>

\* useState<IDCardField[]>([]): no edited fields
NoFields == <<>>

\* no line is being split
NoLine == [line |-> <<>>, pos |-> 0, values |-> <<>>, current |-> <<>>, inQuotes |-> FALSE, done |-> TRUE]

\* lines.map(line => ...) starts on a line: values = [], current = '', inQuotes = false
StartLine(line) ==
    [line |-> line, pos |-> 0, values |-> <<>>, current |-> <<>>, inQuotes |-> FALSE, done |-> FALSE]

NoMessage == ""

GenerationFailed == "Generation failed"

\* ----------------------------------------------------------------- fields
Category == "school"

\* the fields of the category that the pipeline reads: key, lower-cased key, lower-cased label
DefaultFields == <<
    [key |-> "name", keyLower |-> <<"n","a","m","e">>,
     labelLower |-> <<"s","t","u","d","e","n","t"," ","n","a","m","e">>],
    [key |-> "rollNo", keyLower |-> <<"r","o","l","l","n","o">>,
     labelLower |-> <<"r","o","l","l"," ","n","o">>] >>

NameOf(rec) == rec.fields.name

StudentIdOf(rec) == rec.fields.rollNo

\* -------------------------------------------------------- spreadsheet files
\* an uploaded data file: its extension and its rows of cells (row 1 is the header)
sNameHdr == <<"N","a","m","e">>

sRollHdr == <<"R","o","l","l"," ","N","o">>

sPhotoHdr == <<"P","h","o","t","o">>

DataFiles == [
    one |-> [ext |-> ".csv",
             rows |-> << <<sNameHdr, sRollHdr>>, << <<"A">>, <<"S","1">> >> >>],
    two |-> [ext |-> ".xlsx",
             rows |-> << <<sRollHdr, sNameHdr, sPhotoHdr>>,
                         << <<"S","1">>, <<"A">>, <<>> >>,
                         << <<"S","1">>, <<"A">>, <<>> >> >>],
    text |-> [ext |-> ".txt",
              rows |-> << <<sNameHdr, sRollHdr>>, << <<"A">>, <<"S","1">> >> >>],
    header |-> [ext |-> ".csv",
                rows |-> << <<sNameHdr, sRollHdr>> >>],
    blank |-> [ext |-> ".xls",
               rows |-> << <<sNameHdr, sRollHdr>>, <<>>, << <<>> >> >>] ]

\* the files that can be imported, and those whose import fails
GoodFiles == {"one", "two"}

BadFiles == {"text", "header", "blank"}

DataFileNames == DOMAIN DataFiles

ValidExtensions == {".csv", ".xlsx", ".xls"}

NormalizeHeader(h) == SelectSeq(ToLowerCase(Trim(h)), NotQuote)

StripSeparators(h) == SelectSeq(h, NotSeparator)

HeaderMatches(h, field) ==
    \/ h = field.keyLower
    \/ h = field.labelLower
    \/ StripSeparators(h) = field.keyLower
    \/ StripSeparators(h) = StripSeparators(field.labelLower)

HeaderIndex(headers, field) ==
    FindIndex([k \in 1..Len(headers) |-> HeaderMatches(headers[k], field)])

IsPhotoHeader(h) == Includes(h, <<"p","h","o","t","o">>)

PhotoIndex(headers) == FindIndex([k \in 1..Len(headers) |-> IsPhotoHeader(headers[k])])

CellAt(values, k) == IF k >= 1 /\ k <= Len(values) THEN values[k] ELSE <<>>

IsEmptyRow(row) == Len(row) = 0 \/ (Len(row) = 1 /\ row[1] = <<>>)

\* the record built from data row i (the source's rows[i], row i+1 here) read at time t
RecordOfRow(headers, row, i, t) ==
    LET values == [k \in 1..Len(row) |-> Trim(row[k])]
        nameIdx == HeaderIndex(headers, DefaultFields[1])
        rollIdx == HeaderIndex(headers, DefaultFields[2])
        photoIdx == PhotoIndex(headers)
    IN [id |-> <<t, i>>,
        rowIndex |-> i,
        fields |-> [name |-> CellAt(values, nameIdx), rollNo |-> CellAt(values, rollIdx)],
        profilePhoto |-> CellAt(values, photoIdx),
        photoMatched |-> FALSE,
        status |-> "pending",
        errorMessage |-> NoMessage,
        generatedImage |-> <<>>]

RECURSIVE ParseRows(_, _, _, _)
ParseRows(headers, rows, i, t) ==
    IF i + 1 > Len(rows) THEN <<>>
    ELSE IF IsEmptyRow(rows[i + 1]) THEN ParseRows(headers, rows, i + 1, t)
    ELSE <<RecordOfRow(headers, rows[i + 1], i, t)>> \o ParseRows(headers, rows, i + 1, t)

\* result of parseExcelOrCSV: ok = FALSE when the promise rejects
ParseExcelOrCSV(file, t) ==
    IF Len(file.rows) < 2 THEN [ok |-> FALSE, records |-> <<>>]
    ELSE [ok |-> TRUE,
          records |-> ParseRows([k \in 1..Len(file.rows[1]) |-> NormalizeHeader(file.rows[1][k])],
                                file.rows, 1, t)]

\* ------------------------------------------------------------- photo files
\* an uploaded photo file: its name, whether its MIME type is image/*, and its data URL
PhotoFiles == [
    p1 |-> [fileName |-> <<"s","1",".","p">>, isImage |-> TRUE, photoUrl |-> <<"p","1">>],
    p2 |-> [fileName |-> <<"S",".","p">>, isImage |-> TRUE, photoUrl |-> <<"p","2">>],
    p3 |-> [fileName |-> <<"s","1",".","t">>, isImage |-> FALSE, photoUrl |-> <<"p","3">>] ]

\* the selections of files handed to handlePhotoFiles
PhotoBatches == {<<"p1">>, <<"p2">>, <<"p2", "p1">>, <<"p3">>}

PhotoFileNames == DOMAIN PhotoFiles

\* fileName.replace(/\.[^.]+$/, '').trim()
StripExtension(s) ==
    LET dots == {k \in 1..Len(s) : s[k] = "."}
        last == IF dots = {} THEN 0 ELSE CHOOSE k \in dots : \A j \in dots : j <= k
    IN IF last = 0 \/ last = Len(s) THEN Trim(s) ELSE Trim(SubSeq(s, 1, last - 1))

PhotoMappingOf(f) ==
    [studentId |-> StripExtension(PhotoFiles[f].fileName),
     photoUrl |-> PhotoFiles[f].photoUrl,
     fileName |-> PhotoFiles[f].fileName]

\* ------------------------------------------------------------ photo matcher
\* a comparison that forgets to lower-case both sides
PhotoMatchesCaseSensitive(p, value) ==
    \/ p.studentId = value
    \/ Includes(p.studentId, value)
    \/ Includes(value, p.studentId)

PhotoMatches(p, value) ==
    \/ ToLowerCase(p.studentId) = ToLowerCase(value)
    \/ Includes(ToLowerCase(p.studentId), ToLowerCase(value))
    \/ Includes(ToLowerCase(value), ToLowerCase(p.studentId))

\* a matcher that also overwrites a photo the record already has
MatchRecordOverwrites(rec, phs) ==
    LET value == StudentIdOf(rec)
        idx == FindIndex([k \in 1..Len(phs) |-> PhotoMatches(phs[k], value)])
    IN IF value = <<>> THEN rec
       ELSE IF idx # 0
            THEN [rec EXCEPT !.profilePhoto = phs[idx].photoUrl, !.photoMatched = TRUE]
            ELSE rec

MatchRecord(rec, phs) ==
    LET value == StudentIdOf(rec)
        idx == FindIndex([k \in 1..Len(phs) |-> PhotoMatches(phs[k], value)])
    IN IF value = <<>> THEN rec
       ELSE IF idx # 0 /\ rec.profilePhoto = Null
            THEN [rec EXCEPT !.profilePhoto = phs[idx].photoUrl, !.photoMatched = TRUE]
            ELSE rec

\* a pass that stops after the first record it has given a photo
MatchPassOneAtATime(recs, phs) ==
    [k \in 1..Len(recs) |->
        IF \E j \in 1..(k - 1) : MatchRecord(recs[j], phs) # recs[j]
        THEN recs[k]
        ELSE MatchRecord(recs[k], phs)]

MatchPass(recs, phs) == [k \in 1..Len(recs) |-> MatchRecord(recs[k], phs)]

HasChanges(updated, recs) ==
    \E k \in 1..Len(recs) :
        \/ updated[k].profilePhoto # recs[k].profilePhoto
        \/ updated[k].photoMatched # recs[k].photoMatched

\* the photo matching effect, re-run after every change of records or photos
\* until it makes no further update
RECURSIVE MatchEffect(_, _)
MatchEffect(recs, phs) ==
    IF Len(phs) = 0 \/ Len(recs) = 0 THEN recs
    ELSE LET updated == MatchPass(recs, phs)
         IN IF HasChanges(updated, recs) THEN MatchEffect(updated, phs) ELSE recs

\* the auto-select effect
AutoSelect(recs, sel) == IF Len(recs) > 0 /\ sel = Null THEN recs[1].id ELSE sel

\* ---------------------------------------------------------------- exporter
\* validation that forgets to trim: a whitespace-only name passes
IsBlankNameNoTrim(name) == name = <<>>

IsBlankName(name) == name = <<>> \/ Trim(name) = <<>>

RowIndices(recs) == [k \in 1..Len(recs) |-> recs[k].rowIndex]

\* a validator that also rejects a list in which a photo is missing
ValidateRecordsPhotoRequired(recs) ==
    LET MissingName(r) == IsBlankName(NameOf(r))
        NoPhoto(r) == r.profilePhoto = Null
        HasPhoto(r) == r.profilePhoto # Null
        errors == RowIndices(SelectSeq(recs, MissingName))
        warnings == RowIndices(SelectSeq(recs, NoPhoto))
    IN [isValid |-> Len(errors) = 0 /\ Len(warnings) = 0,
        errors |-> errors,
        warnings |-> warnings,
        recordsValidated |-> Len(recs),
        photosMatched |-> Len(SelectSeq(recs, HasPhoto)),
        photosMissing |-> Len(SelectSeq(recs, NoPhoto))]

\* validateRecords: errors and warnings are kept as the row numbers they name
ValidateRecords(recs) ==
    LET MissingName(r) == IsBlankName(NameOf(r))
        NoPhoto(r) == r.profilePhoto = Null
        HasPhoto(r) == r.profilePhoto # Null
        errors == RowIndices(SelectSeq(recs, MissingName))
        warnings == RowIndices(SelectSeq(recs, NoPhoto))
    IN [isValid |-> Len(errors) = 0,
        errors |-> errors,
        warnings |-> warnings,
        recordsValidated |-> Len(recs),
        photosMatched |-> Len(SelectSeq(recs, HasPhoto)),
        photosMissing |-> Len(SelectSeq(recs, NoPhoto))]

\* toPng of the hidden card: the image is determined by the card's configuration
Png(rec) == [fields |-> rec.fields, profilePhoto |-> rec.profilePhoto]

DigitChars == <<"1", "2", "3", "4", "5", "6", "7", "8", "9">>

SanitizeName(name) == Trim(SelectSeq(IF name = <<>> THEN <<"U","n","k","n","o","w","n">> ELSE name, IsAlnumOrSpace))

SanitizeStudentId(rec) ==
    SelectSeq(IF StudentIdOf(rec) = <<>> THEN <<"I", "D", DigitChars[rec.rowIndex]>> ELSE StudentIdOf(rec), IsAlnum)

CardOf(rec, dataUrl) ==
    [name |-> SanitizeName(NameOf(rec)), studentId |-> SanitizeStudentId(rec), dataUrl |-> dataUrl]

\* generatedImages.filter((_, i) => updatedRecords[i].status === 'generated')
RECURSIVE FilterSuccessful(_, _, _)
FilterSuccessful(images, updated, k) ==
    IF k > Len(images) THEN <<>>
    ELSE (IF updated[k].status = "generated" THEN <<images[k]>> ELSE <<>>)
         \o FilterSuccessful(images, updated, k + 1)

FileNameOf(card) == card.name \o <<"_">> \o card.studentId \o <<".", "p", "n", "g">>

\* zip.file(fileName, blob): an entry of the same name is replaced
ZipFile(zip, fileName, blob) ==
    IF \E k \in 1..Len(zip) : zip[k].fileName = fileName
    THEN [k \in 1..Len(zip) |-> IF zip[k].fileName = fileName THEN [fileName |-> fileName, blob |-> blob] ELSE zip[k]]
    ELSE Append(zip, [fileName |-> fileName, blob |-> blob])

RECURSIVE ZipCards(_, _)
ZipCards(zip, cards) ==
    IF cards = <<>> THEN zip
    ELSE ZipCards(ZipFile(zip, FileNameOf(Head(cards)), Head(cards).dataUrl), Tail(cards))

ProgressOf(current, total, phase) == [current |-> current, total |-> total, phase |-> phase]

\* -------------------------------------------------------------------- state
VARIABLES
    records,            \* BulkGeneratorPanel: the record list
    photos,             \* BulkGeneratorPanel: the uploaded photo mappings
    selectedRecordId,   \* BulkGeneratorPanel: id of the selected record, or Null
    dataJobs,           \* BulkDataImport: data files being read, each with the existingRecords it captured
    photoJobs,          \* BulkDataImport: photo uploads being read, each with the existingPhotos it captured
    photoUploads,       \* BulkCardPreview: photo files being read, each with the record it was chosen for
    importBusy,         \* BulkDataImport: isProcessing
    lastNow,            \* the last value Date.now() returned
    dataToast,          \* the last toast of handleDataFile, "none" before the first
    csvLine,            \* parseExcelOrCSV: the CSV line being split, with values, current and inQuotes
    isEditing,          \* BulkCardPreview: isEditing
    editedFields,       \* BulkCardPreview: editedFields, NoFields when []
    used,               \* how many imports, export runs, edits, photo batches and preview uploads the user has started
    isProcessing,       \* BulkExporter: isProcessing
    progress,           \* BulkExporter: progress
    validationResult,   \* BulkExporter: validationResult, <<>> when null
    currentRenderIndex, \* BulkExporter: currentRenderIndex, 0 when null
    pc,                 \* handleSaveNow: "idle", "rendering" (awaiting a render) or "packaging" (awaiting the archive)
    runRecords,         \* handleSaveNow: the records its closure captured
    updatedRecords,     \* handleSaveNow: updatedRecords
    generatedImages,    \* handleSaveNow: generatedImages
    successfulCards,    \* handleSaveNow: successfulCards
    loopIndex,          \* handleSaveNow: i (1-based)
    reports,            \* history: the progress reports of the current or last run, in order
    renderLog,          \* history: the record indices handed to generateCardImage in that run
    download,           \* history: the number of archives handed to saveAs in that run
    runError            \* history: the error toast of that run, "" when none

panelVars == <<records, photos, selectedRecordId>>

previewVars == <<isEditing, editedFields>>

importVars == <<dataJobs, photoJobs, photoUploads, importBusy, lastNow, dataToast, csvLine, previewVars>>

exporterVars == <<isProcessing, progress, validationResult, currentRenderIndex, pc, runRecords,
                  updatedRecords, generatedImages, successfulCards, loopIndex>>

historyVars == <<reports, renderLog, download, runError>>

vars == <<panelVars, importVars, exporterVars, historyVars, used>>

Init ==
    /\ records = <<>>
    /\ photos = <<>>
    /\ selectedRecordId = Null
    /\ dataJobs = <<>>
    /\ photoJobs = <<>>
    /\ photoUploads = <<>>
    /\ importBusy = FALSE
    /\ lastNow = 0
    /\ dataToast = "none"
    /\ csvLine = NoLine
    /\ isEditing = FALSE
    /\ editedFields = NoFields
    /\ used = [imports |-> 0, runs |-> 0, edits |-> 0, photos |-> 0, uploads |-> 0]
    /\ isProcessing = FALSE
    /\ progress = ProgressOf(0, 0, "validating")
    /\ validationResult = <<>>
    /\ currentRenderIndex = 0
    /\ pc = "idle"
    /\ runRecords = <<>>
    /\ updatedRecords = <<>>
    /\ generatedImages = <<>>
    /\ successfulCards = <<>>
    /\ loopIndex = 0
    /\ reports = <<>>
    /\ renderLog = <<>>
    /\ download = 0
    /\ runError = ""

\* a state update of the panel followed by its effects (photo matching, auto-select)
Commit(newRecords, newPhotos, newSelected) ==
    /\ records' = MatchEffect(newRecords, newPhotos)
    /\ photos' = newPhotos
    /\ selectedRecordId' = AutoSelect(records', newSelected)

RemoveAt(s, k) == SubSeq(s, 1, k - 1) \o SubSeq(s, k + 1, Len(s))

\* BulkGeneratorPanel.isProcessing: some record is generating
PanelBusy == \E k \in 1..Len(records) : records[k].status = "generating"

\* ------------------------------------------------------------ CSV tokenizer
\* a loop body that splits at every comma, quoted or not
ReadCharIgnoresQuotes ==
    /\ ~csvLine.done
    /\ csvLine.pos < Len(csvLine.line)
    /\ LET char == csvLine.line[csvLine.pos + 1]
       IN csvLine' =
            IF char = "\""
            THEN [csvLine EXCEPT !.pos = @ + 1, !.inQuotes = ~@]
            ELSE IF char = ","
            THEN [csvLine EXCEPT !.pos = @ + 1,
                                 !.values = Append(@, Trim(csvLine.current)),
                                 !.current = <<>>]
            ELSE [csvLine EXCEPT !.pos = @ + 1, !.current = Append(@, char)]
    /\ UNCHANGED <<panelVars, dataJobs, photoJobs, photoUploads, importBusy, lastNow, dataToast,
                   previewVars, exporterVars, historyVars, used>>

\* one turn of `for (const char of line)`
ReadChar ==
    /\ ~csvLine.done
    /\ csvLine.pos < Len(csvLine.line)
    /\ LET char == csvLine.line[csvLine.pos + 1]
       IN csvLine' =
            IF char = "\""
            THEN [csvLine EXCEPT !.pos = @ + 1, !.inQuotes = ~@]
            ELSE IF char = "," /\ ~csvLine.inQuotes
            THEN [csvLine EXCEPT !.pos = @ + 1,
                                 !.values = Append(@, Trim(csvLine.current)),
                                 !.current = <<>>]
            ELSE [csvLine EXCEPT !.pos = @ + 1, !.current = Append(@, char)]
    /\ UNCHANGED <<panelVars, dataJobs, photoJobs, photoUploads, importBusy, lastNow, dataToast,
                   previewVars, exporterVars, historyVars, used>>

\* after the loop: values.push(current.trim()); return values
EndOfLine ==
    /\ ~csvLine.done
    /\ csvLine.pos = Len(csvLine.line)
    /\ csvLine' = [csvLine EXCEPT !.values = Append(@, Trim(csvLine.current)), !.done = TRUE]
    /\ UNCHANGED <<panelVars, dataJobs, photoJobs, photoUploads, importBusy, lastNow, dataToast,
                   previewVars, exporterVars, historyVars, used>>

\* ------------------------------------------------------------------ import
\* handleDataFile up to its await: the extension check and the start of the read
HandleDataFile(f) ==
    /\ IF DataFiles[f].ext \in ValidExtensions
       THEN /\ dataJobs' = Append(dataJobs, [existingRecords |-> records, file |-> f])
            /\ importBusy' = TRUE
            /\ UNCHANGED dataToast
       ELSE /\ dataToast' = "invalidExtension"
            /\ UNCHANGED <<dataJobs, importBusy>>
    /\ UNCHANGED <<panelVars, photoJobs, photoUploads, lastNow, csvLine, previewVars, exporterVars, historyVars>>

\* the file input's onChange; the input is disabled while a file is being processed
UploadDataFile(f) == ~importBusy /\ HandleDataFile(f)

\* handleDataDrop: dropping a file is possible at any time
HandleDataDrop(f) == HandleDataFile(f)

\* completion that hands the list to the panel even when no record was parsed
DataFileLoadedAlwaysImports(j, t) ==
    /\ j \in 1..Len(dataJobs)
    /\ t >= lastNow
    /\ LET job == dataJobs[j]
           parsed == ParseExcelOrCSV(DataFiles[job.file], t)
       IN IF parsed.ok
          THEN /\ Commit(job.existingRecords \o parsed.records, photos, selectedRecordId)
               /\ dataToast' = "imported"
          ELSE /\ UNCHANGED panelVars
               /\ dataToast' = IF parsed.ok THEN "noRecords" ELSE "parseError"
    /\ lastNow' = t
    /\ dataJobs' = RemoveAt(dataJobs, j)
    /\ importBusy' = FALSE
    /\ UNCHANGED <<photoJobs, photoUploads, csvLine, previewVars, exporterVars, historyVars>>

\* reader.onload and the rest of handleDataFile; t is the value of Date.now()
DataFileLoaded(j, t) ==
    /\ j \in 1..Len(dataJobs)
    /\ t >= lastNow
    /\ LET job == dataJobs[j]
           parsed == ParseExcelOrCSV(DataFiles[job.file], t)
       IN IF parsed.ok /\ Len(parsed.records) > 0
          THEN /\ Commit(job.existingRecords \o parsed.records, photos, selectedRecordId)
               /\ dataToast' = "imported"
          ELSE /\ UNCHANGED panelVars
               /\ dataToast' = IF parsed.ok THEN "noRecords" ELSE "parseError"
    /\ lastNow' = t
    /\ dataJobs' = RemoveAt(dataJobs, j)
    /\ importBusy' = FALSE
    /\ UNCHANGED <<photoJobs, photoUploads, csvLine, previewVars, exporterVars, historyVars>>

\* handlePhotoFiles up to its first await
HandlePhotoFiles(files) ==
    /\ photoJobs' = Append(photoJobs, [existingPhotos |-> photos, files |-> files])
    /\ UNCHANGED <<panelVars, dataJobs, photoUploads, importBusy, lastNow, dataToast, csvLine, previewVars, exporterVars, historyVars>>

\* the end of handlePhotoFiles, when the last file has been read
PhotoFilesLoaded(j) ==
    /\ j \in 1..Len(photoJobs)
    /\ LET job == photoJobs[j]
           images == SelectSeq(job.files, LAMBDA f : PhotoFiles[f].isImage)
           photoMappings == [k \in 1..Len(images) |-> PhotoMappingOf(images[k])]
       IN IF Len(photoMappings) > 0
          THEN Commit(records, job.existingPhotos \o photoMappings, selectedRecordId)
          ELSE UNCHANGED panelVars
    /\ photoJobs' = RemoveAt(photoJobs, j)
    /\ UNCHANGED <<dataJobs, photoUploads, importBusy, lastNow, dataToast, csvLine, previewVars, exporterVars, historyVars>>

\* ------------------------------------------------------ record store / editor
IndexOfId(recs, id) == FindIndex([k \in 1..Len(recs) |-> recs[k].id = id])

\* records.find(r => r.id === selectedRecordId) || null, as an index (0 when null)
SelectedIndex == IndexOfId(records, selectedRecordId)

HandleSelectRecord(k) ==
    /\ k \in 1..Len(records)
    /\ selectedRecordId' = records[k].id
    /\ UNCHANGED <<records, photos, importVars, exporterVars, historyVars>>

\* onNavigate; the source's indices are 0-based and findIndex gives -1 when nothing is found
OnNavigate(direction) ==
    /\ Len(records) > 0
    /\ LET n == Len(records)
           currentIdx == SelectedIndex - 1
           newIdx == IF direction = "prev" THEN (currentIdx - 1 + n) % n ELSE (currentIdx + 1) % n
       IN selectedRecordId' = records[newIdx + 1].id
    /\ UNCHANGED <<records, photos, importVars, exporterVars, historyVars>>

HandleRemoveRecord(k) ==
    /\ ~PanelBusy
    /\ k \in 1..Len(records)
    /\ LET id == records[k].id
       IN Commit(SelectSeq(records, LAMBDA r : r.id # id), photos,
                 IF selectedRecordId = id THEN Null ELSE selectedRecordId)
    /\ UNCHANGED <<importVars, exporterVars, historyVars>>

HandleClearAll ==
    /\ ~PanelBusy
    /\ Len(records) > 0
    /\ Commit(<<>>, <<>>, Null)
    /\ UNCHANGED <<importVars, exporterVars, historyVars>>

\* an update that forgets to leave the other records alone: every status is reset
UpdateRecordResetsAll(recs, recordId, fields, photo) ==
    [k \in 1..Len(recs) |->
        IF recs[k].id # recordId THEN [recs[k] EXCEPT !.status = "pending"]
        ELSE [recs[k] EXCEPT !.fields = fields,
                             !.profilePhoto = IF photo # <<>> THEN photo[1] ELSE @,
                             !.status = "pending"]]

\* handleUpdateRecord; photo is <<>> when the argument is undefined, <<url>> otherwise
UpdateRecordIn(recs, recordId, fields, photo) ==
    [k \in 1..Len(recs) |->
        IF recs[k].id # recordId THEN recs[k]
        ELSE [recs[k] EXCEPT !.fields = fields,
                             !.profilePhoto = IF photo # <<>> THEN photo[1] ELSE @,
                             !.status = "pending"]]

HandleUpdateRecord(recordId, fields, photo) ==
    Commit(UpdateRecordIn(records, recordId, fields, photo), photos, selectedRecordId)

EditValues == [name |-> {<<" ">>, <<"A">>}]

\* saveEdits that hands an empty photo to the update instead of none
SaveEditsDropsPhoto(key, value) ==
    /\ SelectedIndex # 0
    /\ key \in DOMAIN EditValues
    /\ value \in EditValues[key]
    /\ LET record == records[SelectedIndex]
       IN HandleUpdateRecord(record.id, [record.fields EXCEPT ![key] = value], <<Null>>)
    /\ UNCHANGED <<importVars, exporterVars, historyVars>>

\* startEditing, handleFieldChange(key, value) and saveEdits on the selected record,
\* with no other step in between
SaveEdits(key, value) ==
    /\ SelectedIndex # 0
    /\ key \in DOMAIN EditValues
    /\ value \in EditValues[key]
    /\ LET record == records[SelectedIndex]
       IN HandleUpdateRecord(record.id, [record.fields EXCEPT ![key] = value], <<>>)
    /\ UNCHANGED <<importVars, exporterVars, historyVars>>

\* startEditing: the fields of the previewed record are copied into editedFields
StartEditing ==
    /\ SelectedIndex # 0
    /\ ~isEditing
    /\ editedFields' = records[SelectedIndex].fields
    /\ isEditing' = TRUE
    /\ UNCHANGED <<panelVars, dataJobs, photoJobs, photoUploads, importBusy, lastNow, dataToast,
                   csvLine, exporterVars, historyVars>>

\* handleFieldChange(key, value) on an input of the edit form
HandleFieldChange(key, value) ==
    /\ SelectedIndex # 0
    /\ isEditing
    /\ key \in DOMAIN EditValues
    /\ value \in EditValues[key]
    /\ editedFields' = [k \in DOMAIN editedFields |-> IF k = key THEN value ELSE editedFields[k]]
    /\ UNCHANGED <<panelVars, dataJobs, photoJobs, photoUploads, importBusy, lastNow, dataToast,
                   csvLine, isEditing, exporterVars, historyVars>>

\* cancelEditing
CancelEditing ==
    /\ SelectedIndex # 0
    /\ isEditing
    /\ isEditing' = FALSE
    /\ editedFields' = NoFields
    /\ UNCHANGED <<panelVars, dataJobs, photoJobs, photoUploads, importBusy, lastNow, dataToast,
                   csvLine, exporterVars, historyVars>>

\* saveEdits: the previewed record is updated with editedFields
SaveEditedFields ==
    /\ SelectedIndex # 0
    /\ isEditing
    /\ HandleUpdateRecord(records[SelectedIndex].id, editedFields, <<>>)
    /\ isEditing' = FALSE
    /\ UNCHANGED <<dataJobs, photoJobs, photoUploads, importBusy, lastNow, dataToast,
                   csvLine, editedFields, exporterVars, historyVars>>

\* the data URLs of the image files chosen in the preview
ManualPhotos == {<<"m">>}

\* handlePhotoUpload up to readAsDataURL: the read starts for the previewed record
HandlePhotoUpload(photoUrl) ==
    /\ SelectedIndex # 0
    /\ photoUrl \in ManualPhotos
    /\ LET record == records[SelectedIndex]
       IN photoUploads' = Append(photoUploads, [recordId |-> record.id, fields |-> record.fields,
                                                photoUrl |-> photoUrl])
    /\ UNCHANGED <<panelVars, dataJobs, photoJobs, importBusy, lastNow, dataToast, csvLine, previewVars, exporterVars, historyVars>>

\* reader.onload of handlePhotoUpload
PhotoUploadLoaded(j) ==
    /\ j \in 1..Len(photoUploads)
    /\ LET job == photoUploads[j]
       IN HandleUpdateRecord(job.recordId, job.fields, <<job.photoUrl>>)
    /\ photoUploads' = RemoveAt(photoUploads, j)
    /\ UNCHANGED <<dataJobs, photoJobs, importBusy, lastNow, dataToast, csvLine, previewVars, exporterVars, historyVars>>

\* ------------------------------------------------------------ handleSaveNow
\* the locals of handleSaveNow when no call is active
NoRun ==
    /\ runRecords' = <<>>
    /\ updatedRecords' = <<>>
    /\ generatedImages' = <<>>
    /\ successfulCards' = <<>>
    /\ loopIndex' = 0

\* a validation failure that returns without clearing the busy flag
HandleSaveNowStaysBusy ==
    /\ ~isProcessing
    /\ pc = "idle"
    /\ Len(records) > 0
    /\ LET n == Len(records)
           validation == ValidateRecords(records)
           started == [records EXCEPT ![1].status = "generating"]
       IN /\ validationResult' = <<validation>>
          /\ renderLog' = <<>>
          /\ download' = 0
          /\ IF ~validation.isValid
             THEN /\ progress' = ProgressOf(0, n, "validating")
                  /\ reports' = <<ProgressOf(0, n, "validating")>>
                  /\ runError' = "validation"
                  /\ isProcessing' = TRUE
                  /\ NoRun
                  /\ UNCHANGED <<panelVars, currentRenderIndex, pc>>
             ELSE /\ progress' = ProgressOf(0, n, "generating")
                  /\ reports' = <<ProgressOf(0, n, "validating"), ProgressOf(0, n, "generating")>>
                  /\ runError' = ""
                  /\ isProcessing' = TRUE
                  /\ runRecords' = records
                  /\ updatedRecords' = started
                  /\ generatedImages' = <<>>
                  /\ successfulCards' = <<>>
                  /\ loopIndex' = 1
                  /\ currentRenderIndex' = 1
                  /\ pc' = "rendering"
                  /\ Commit(started, photos, selectedRecordId)
    /\ UNCHANGED importVars

\* from the click to the first await: validation and, when it passes, the start of record 1
HandleSaveNow ==
    /\ ~isProcessing
    /\ pc = "idle"
    /\ Len(records) > 0
    /\ LET n == Len(records)
           validation == ValidateRecords(records)
           started == [records EXCEPT ![1].status = "generating"]
       IN /\ validationResult' = <<validation>>
          /\ renderLog' = <<>>
          /\ download' = 0
          /\ IF ~validation.isValid
             THEN /\ progress' = ProgressOf(0, n, "validating")
                  /\ reports' = <<ProgressOf(0, n, "validating")>>
                  /\ runError' = "validation"
                  /\ isProcessing' = FALSE
                  /\ NoRun
                  /\ UNCHANGED <<panelVars, currentRenderIndex, pc>>
             ELSE /\ progress' = ProgressOf(0, n, "generating")
                  /\ reports' = <<ProgressOf(0, n, "validating"), ProgressOf(0, n, "generating")>>
                  /\ runError' = ""
                  /\ isProcessing' = TRUE
                  /\ runRecords' = records
                  /\ updatedRecords' = started
                  /\ generatedImages' = <<>>
                  /\ successfulCards' = <<>>
                  /\ loopIndex' = 1
                  /\ currentRenderIndex' = 1
                  /\ pc' = "rendering"
                  /\ Commit(started, photos, selectedRecordId)
    /\ UNCHANGED importVars

\* a catch block that forgets to record the failure
RenderOutcomeKeepsGenerating(record, dataUrl, success) ==
    IF success
    THEN [record EXCEPT !.status = "generated", !.generatedImage = <<dataUrl>>]
    ELSE [record EXCEPT !.status = "generating"]

\* what updatedRecords[i] becomes when generateCardImage settles for record i
RenderOutcome(record, dataUrl, success) ==
    IF success
    THEN [record EXCEPT !.status = "generated", !.generatedImage = <<dataUrl>>]
    ELSE [record EXCEPT !.status = "error", !.errorMessage = GenerationFailed]

\* a progress report that lags one record behind
NextRecordStaleProgress(updated, i, n) ==
    LET started == [updated EXCEPT ![i + 1] = [runRecords[i + 1] EXCEPT !.status = "generating"]]
    IN /\ updatedRecords' = started
       /\ Commit(started, photos, selectedRecordId)
       /\ loopIndex' = i + 1
       /\ currentRenderIndex' = i + 1
       /\ progress' = ProgressOf(i - 1, n, "generating")
       /\ reports' = Append(reports, ProgressOf(i - 1, n, "generating"))
       /\ UNCHANGED <<pc, isProcessing, successfulCards, runError, runRecords>>

\* the loop moves on to record i + 1 and suspends in its settling delay
NextRecord(updated, i, n) ==
    LET started == [updated EXCEPT ![i + 1] = [runRecords[i + 1] EXCEPT !.status = "generating"]]
    IN /\ updatedRecords' = started
       /\ Commit(started, photos, selectedRecordId)
       /\ loopIndex' = i + 1
       /\ currentRenderIndex' = i + 1
       /\ progress' = ProgressOf(i, n, "generating")
       /\ reports' = Append(reports, ProgressOf(i, n, "generating"))
       /\ UNCHANGED <<pc, isProcessing, successfulCards, runError, runRecords>>

\* packaging that forgets the zero-success abort
StartPackagingNoAbort(updated, images, i, n) ==
    /\ Commit(updated, photos, selectedRecordId)
    /\ currentRenderIndex' = 0
    /\ progress' = ProgressOf(0, 1, "packaging")
    /\ reports' = reports \o <<ProgressOf(i, n, "generating"), ProgressOf(0, 1, "packaging")>>
    /\ pc' = "packaging"
    /\ updatedRecords' = updated
    /\ successfulCards' = FilterSuccessful(images, updated, 1)
    /\ loopIndex' = n + 1
    /\ generatedImages' = images
    /\ UNCHANGED <<isProcessing, runError, runRecords>>

\* the loop is over: the packaging phase up to its first await, or the abort
StartPackaging(updated, images, i, n) ==
    LET cards == FilterSuccessful(images, updated, 1)
    IN /\ Commit(updated, photos, selectedRecordId)
       /\ currentRenderIndex' = 0
       /\ progress' = ProgressOf(0, 1, "packaging")
       /\ reports' = reports \o <<ProgressOf(i, n, "generating"), ProgressOf(0, 1, "packaging")>>
       /\ IF Len(cards) = 0
          THEN /\ runError' = "nocards"
               /\ isProcessing' = FALSE
               /\ pc' = "idle"
               /\ NoRun
          ELSE /\ pc' = "packaging"
               /\ updatedRecords' = updated
               /\ successfulCards' = cards
               /\ loopIndex' = n + 1
               /\ UNCHANGED <<isProcessing, runError, runRecords>>

\* generateCardImage settles for record i (ok: toPng resolves); the loop body finishes
\* and the call runs on to its next await
RenderSettled(ok) ==
    /\ pc = "rendering"
    /\ LET i == loopIndex
           n == Len(runRecords)
           record == runRecords[i]
           mounted == currentRenderIndex <= Len(records)
           success == ok /\ mounted
           dataUrl == Png(records[currentRenderIndex])
           updated == [updatedRecords EXCEPT ![i] = RenderOutcome(record, dataUrl, success)]
           images == IF success THEN Append(generatedImages, CardOf(record, dataUrl)) ELSE generatedImages
       IN /\ renderLog' = Append(renderLog, [index |-> i, success |-> success])
          /\ IF i < n
             THEN NextRecord(updated, i, n) /\ generatedImages' = images
             ELSE StartPackaging(updated, images, i, n)
                  /\ (Len(FilterSuccessful(images, updated, 1)) # 0 => generatedImages' = images)
    /\ UNCHANGED <<importVars, validationResult, download>>

\* a run that reports completion even when the archive could not be built
ArchiveSettledAlwaysComplete(ok) ==
    /\ pc = "packaging"
    /\ download' = IF ok THEN download + 1 ELSE download
    /\ runError' = IF ok THEN runError ELSE "zip"
    /\ progress' = ProgressOf(1, 1, "complete")
    /\ reports' = Append(reports, ProgressOf(1, 1, "complete"))
    /\ isProcessing' = FALSE
    /\ pc' = "idle"
    /\ NoRun
    /\ UNCHANGED <<panelVars, importVars, validationResult, currentRenderIndex, renderLog>>

\* the archive is built and saved (ok) or fetch/generateAsync throws; the call returns
ArchiveSettled(ok) ==
    /\ pc = "packaging"
    /\ IF ok
       THEN /\ download' = download + 1
            /\ progress' = ProgressOf(1, 1, "complete")
            /\ reports' = Append(reports, ProgressOf(1, 1, "complete"))
            /\ UNCHANGED runError
       ELSE /\ runError' = "zip"
            /\ UNCHANGED <<download, progress, reports>>
    /\ isProcessing' = FALSE
    /\ pc' = "idle"
    /\ NoRun
    /\ UNCHANGED <<panelVars, importVars, validationResult, currentRenderIndex, renderLog>>

\* ------------------------------------------------------------ specification
\* the user starts at most max actions of a kind
Budget(what, max) == used[what] < max /\ used' = [used EXCEPT ![what] = @ + 1]

\* the record list never grows beyond max records
Room(f, max) == Len(records) + Len(DataFiles[f].rows) - 1 <= max

LoadStep ==
    \E j \in 1..Len(dataJobs), t \in lastNow..MaxClock : DataFileLoaded(j, t)

SelectStep ==
    \/ \E k \in 1..Len(records) : HandleSelectRecord(k)
    \/ \E d \in {"prev", "next"} : OnNavigate(d)

RemoveStep ==
    \/ \E k \in 1..Len(records) : HandleRemoveRecord(k)
    \/ HandleClearAll

EditStep ==
    \E key \in DOMAIN EditValues : \E value \in EditValues[key] : SaveEdits(key, value)

\* the preview's photo input: a file is chosen
UploadStep == \E photoUrl \in ManualPhotos : HandlePhotoUpload(photoUrl)

\* a read started by the preview's photo input completes
UploadLoadStep == \E j \in 1..Len(photoUploads) : PhotoUploadLoaded(j)

RenderStep ==
    \/ \E ok \in BOOLEAN : RenderSettled(ok)
    \/ \E ok \in BOOLEAN : ArchiveSettled(ok)

Next ==
    \/ \E f \in GoodFiles : Room(f, MaxRecords) /\ Budget("imports", MaxImports) /\ UploadDataFile(f)
    \/ Budget("edits", MaxEdits) /\ EditStep
    \/ Budget("runs", MaxRuns) /\ HandleSaveNow
    \/ (LoadStep \/ SelectStep \/ RemoveStep \/ RenderStep) /\ UNCHANGED used

Spec == Init /\ [][Next]_vars

\* --------------------------------------------- specification of export runs
\* Export runs on a freshly imported sheet, interleaved with edits and removals made
\* from the preview. The selection is never moved, so the previewed record is the one
\* the panel selects by itself; imports and selection changes are part of Spec.
\* a sheet with a header row and n data rows
SheetOf(n) == [ext |-> ".csv",
               rows |-> << <<sNameHdr, sRollHdr>> >> \o [k \in 1..n |-> << <<"A">>, <<"S", "1">> >>]]

\* the session right after a sheet of 1..MaxRows rows has been imported
InitRun ==
    /\ \E n \in 1..MaxRows : records = ParseExcelOrCSV(SheetOf(n), 0).records
    /\ photos = <<>>
    /\ selectedRecordId = AutoSelect(records, Null)
    /\ dataJobs = <<>>
    /\ photoJobs = <<>>
    /\ photoUploads = <<>>
    /\ importBusy = FALSE
    /\ lastNow = 0
    /\ dataToast = "none"
    /\ csvLine = NoLine
    /\ isEditing = FALSE
    /\ editedFields = NoFields
    /\ used = [imports |-> 1, runs |-> 0, edits |-> 0, photos |-> 0, uploads |-> 0]
    /\ isProcessing = FALSE
    /\ progress = ProgressOf(0, 0, "validating")
    /\ validationResult = <<>>
    /\ currentRenderIndex = 0
    /\ pc = "idle"
    /\ runRecords = <<>>
    /\ updatedRecords = <<>>
    /\ generatedImages = <<>>
    /\ successfulCards = <<>>
    /\ loopIndex = 0
    /\ reports = <<>>
    /\ renderLog = <<>>
    /\ download = 0
    /\ runError = ""

NextRun ==
    \/ Budget("edits", MaxEdits) /\ EditStep
    \/ Budget("runs", MaxRuns) /\ HandleSaveNow
    \/ (RemoveStep \/ RenderStep) /\ UNCHANGED used

SpecRun == InitRun /\ [][NextRun]_vars

\* =================================================================== claims
Blank(name) == \A k \in 1..Len(name) : name[k] = " "

\* C1: when Save Now is invoked on a list in which some record's name is missing or
\* blank, the run stops in the validating phase: the exporter leaves the record list
\* unchanged, starts no record, renders nothing, downloads nothing and is idle again.
ValidationGate ==
    [][(HandleSaveNow /\ \E k \in 1..Len(records) : Blank(NameOf(records[k])))
        => /\ records' = records
           /\ updatedRecords' = <<>>
           /\ renderLog' = <<>>
           /\ download' = 0
           /\ \A j \in 1..Len(reports') : reports'[j].phase = "validating"
           /\ runError' = "validation"
           /\ pc' = "idle"
           /\ ~isProcessing']_vars

ValidationGateWitness ==
    /\ runError = "validation"
    /\ pc = "idle"
    /\ Len(records) >= 2
    /\ \E k \in 1..Len(records) : Blank(NameOf(records[k]))
    /\ \E k \in 1..Len(records) : ~Blank(NameOf(records[k]))

GeneratedRows(recs) == {k \in 1..Len(recs) : recs[k].status = "generated"}

\* the generation loop of the current run has processed every record
LoopOver == reports # <<>> /\ Len(renderLog) = reports[1].total

\* C2: when the archive is being built, the images put into it are exactly the images
\* of the records whose status is generated at the end of the loop: one entry for each
\* such record, none for a failed one, and none left out.
ArchiveHoldsGeneratedCards ==
    pc = "packaging" =>
        /\ Len(successfulCards) = Cardinality(GeneratedRows(updatedRecords))
        /\ \A k \in GeneratedRows(updatedRecords) :
               \E c \in 1..Len(successfulCards) :
                   successfulCards[c] = CardOf(runRecords[k], updatedRecords[k].generatedImage[1])
        /\ \A c \in 1..Len(successfulCards) :
               \E k \in GeneratedRows(updatedRecords) :
                   successfulCards[c] = CardOf(runRecords[k], updatedRecords[k].generatedImage[1])

\* C3: a run that passed validation and in which some render succeeded does not take
\* the 'no cards were generated' abort.
IsolatedFailuresNeverAbort ==
    (LoopOver /\ \E j \in 1..Len(renderLog) : renderLog[j].success) => runError # "nocards"

\* C4: when every render of a run has failed, the run has reported an error, has
\* issued no download, has not reported the complete phase and is no longer busy.
NoPartialArchive ==
    (LoopOver /\ \A j \in 1..Len(renderLog) : ~renderLog[j].success)
        => /\ runError = "nocards"
           /\ download = 0
           /\ \A j \in 1..Len(reports) : reports[j].phase # "complete"
           /\ ~isProcessing
           /\ pc = "idle"

NoPartialArchiveWitness ==
    /\ LoopOver
    /\ Len(renderLog) >= 2
    /\ \A j \in 1..Len(renderLog) : ~renderLog[j].success
    /\ runError = "nocards"

StatusFor(entry) == IF entry.success THEN "generated" ELSE "error"

\* C5: each time a render settles it is the render of the next record in stored order,
\* no record is rendered twice and the loop ends exactly when all have been rendered;
\* the list then written shows every rendered record as generated (success) or error
\* with message 'Generation failed' (failure), the next record as generating, and the
\* records after it as they were when the run started.
RenderedOnceInOrder ==
    [][(renderLog' # renderLog /\ renderLog' # <<>>)
        => LET n == Len(runRecords)
               k == Len(renderLog')
           IN /\ k = Len(renderLog) + 1
              /\ k <= n
              /\ renderLog'[k].index = k
              /\ SubSeq(renderLog', 1, k - 1) = renderLog
              /\ (pc' = "rendering") <=> (k < n)
              /\ Len(records') = n
              /\ \A j \in 1..k :
                     /\ records'[j].id = runRecords[j].id
                     /\ records'[j].status = StatusFor(renderLog'[j])
                     /\ records'[j].status = "error" => records'[j].errorMessage = GenerationFailed
              /\ k < n => records'[k + 1].status = "generating"
              /\ \A j \in (k + 2)..n : records'[j].status = runRecords[j].status]_vars

RenderedOnceInOrderWitness ==
    /\ Len(renderLog) = 2
    /\ ~renderLog[1].success
    /\ renderLog[2].success
    /\ Len(records) = 2
    /\ records[1].status = "error"
    /\ records[1].errorMessage = GenerationFailed
    /\ records[2].status = "generated"

\* C6: at most one record of the list has status generating.
AtMostOneGenerating ==
    Cardinality({k \in 1..Len(records) : records[k].status = "generating"}) <= 1

PhaseRank(phase) ==
    CASE phase = "validating" -> 1
      [] phase = "generating" -> 2
      [] phase = "packaging" -> 3
      [] phase = "complete" -> 4

HasPhase(phase) == \E j \in 1..Len(reports) : reports[j].phase = phase

\* C7: the progress reports of a run start in the validating phase and each report is
\* in the same phase as the one before it or in the next one; generating is reported
\* only after a passing validation, packaging only when every record has been
\* rendered, complete only when the download has been issued.
PhasesAdvanceInOrder ==
    /\ reports # <<>> => reports[1].phase = "validating"
    /\ \A j \in 1..(Len(reports) - 1) :
           PhaseRank(reports[j + 1].phase) - PhaseRank(reports[j].phase) \in {0, 1}
    /\ HasPhase("generating") => validationResult[1].isValid
    /\ HasPhase("packaging") => LoopOver
    /\ HasPhase("complete") => download = 1

PhasesAdvanceInOrderWitness ==
    /\ HasPhase("complete")
    /\ Len(renderLog) >= 2
    /\ \E j \in 1..Len(renderLog) : ~renderLog[j].success

\* C8 as stated: the current counter of successive progress reports of a run never
\* decreases.
ProgressCurrentNeverDecreases ==
    \A j \in 1..(Len(reports) - 1) : reports[j + 1].current >= reports[j].current

\* C8: the current counter never decreases between successive reports of the same
\* phase; in the generating phase it counts the records processed so far, 0 to N of
\* N; the only decrease is the reset to 0 of 1 when packaging starts, and the
\* complete report shows 1 of 1.
ProgressCurrentPerPhase ==
    /\ \A j \in 1..(Len(reports) - 1) :
           /\ reports[j + 1].phase = reports[j].phase => reports[j + 1].current >= reports[j].current
           /\ reports[j + 1].current < reports[j].current
                  => reports[j + 1].phase = "packaging" /\ reports[j + 1].current = 0
    /\ \A j \in 1..Len(reports) :
           /\ reports[j].phase = "validating" => reports[j].current = 0
           /\ reports[j].phase = "generating"
                  => reports[j].current = j - 2 /\ reports[j].total = reports[1].total
           /\ reports[j].phase = "packaging"
                  => reports[j].current = 0 /\ reports[j].total = 1 /\ j = reports[1].total + 3
           /\ reports[j].phase = "complete" => reports[j].current = 1 /\ reports[j].total = 1

ProgressCurrentPerPhaseWitness ==
    /\ HasPhase("complete")
    /\ reports[1].total >= 2
    /\ \E j \in 1..(Len(reports) - 1) : reports[j + 1].current < reports[j].current

\* the record at position k is still at position k after the step
SameRecordAt(k) == k <= Len(records') /\ records'[k].id = records[k].id

\* C9: a record enters generating only from status validated, and error only from
\* generating.
GeneratingOnlyFromValidated ==
    [][\A k \in 1..Len(records) :
           (SameRecordAt(k) /\ records'[k].status # records[k].status)
               => /\ records'[k].status = "generating" => records[k].status = "validated"
                  /\ records'[k].status = "error" => records[k].status = "generating"]_vars

FinishedChanged(k) ==
    /\ SameRecordAt(k)
    /\ records[k].status \in {"generated", "error"}
    /\ records'[k].status # records[k].status

\* a step that is neither an edit, nor a step of an export run, nor a step of an import
PanelOnlyStep == UNCHANGED <<used, importVars, exporterVars, historyVars>>

ResetByEdit(k) ==
    EditStep /\ records[k].id = selectedRecordId /\ records'[k].status = "pending"

ErrorMessageIffError ==
    \A k \in 1..Len(records) :
        (records[k].errorMessage # NoMessage) <=> (records[k].status = "error")

\* C12: for every record of the list, generatedImage is set exactly when the status
\* is generated.
GeneratedImageIffGenerated ==
    \A k \in 1..Len(records) :
        (records[k].generatedImage # <<>>) <=> (records[k].status = "generated")

\* ------------------------------------- specification of photos and edits
\* The session after a sheet with a roll number and a photo column has been imported:
\* photo files are uploaded in batches and matched, and the previewed record is given
\* a photo by hand.
PhotoRows == {
    << <<"A">>, <<"S", "1">>, <<>> >>,
    << <<"A">>, <<"S">>, <<>> >>,
    << <<"A">>, <<"T">>, <<>> >>,
    << <<"A">>, <<>>, <<>> >>,
    << <<"A">>, <<"S", "1">>, <<"u">> >> }

PhotoSheets == UNION {[1..n -> PhotoRows] : n \in 1..MaxRows}

PhotoSheetOf(rows) == [ext |-> ".csv", rows |-> << <<sNameHdr, sRollHdr, sPhotoHdr>> >> \o rows]

InitPhotos ==
    /\ \E rows \in PhotoSheets : records = ParseExcelOrCSV(PhotoSheetOf(rows), 0).records
    /\ photos = <<>>
    /\ selectedRecordId = AutoSelect(records, Null)
    /\ dataJobs = <<>>
    /\ photoJobs = <<>>
    /\ photoUploads = <<>>
    /\ importBusy = FALSE
    /\ lastNow = 0
    /\ dataToast = "none"
    /\ csvLine = NoLine
    /\ isEditing = FALSE
    /\ editedFields = NoFields
    /\ used = [imports |-> 1, runs |-> 0, edits |-> 0, photos |-> 0, uploads |-> 0]
    /\ isProcessing = FALSE
    /\ progress = ProgressOf(0, 0, "validating")
    /\ validationResult = <<>>
    /\ currentRenderIndex = 0
    /\ pc = "idle"
    /\ runRecords = <<>>
    /\ updatedRecords = <<>>
    /\ generatedImages = <<>>
    /\ successfulCards = <<>>
    /\ loopIndex = 0
    /\ reports = <<>>
    /\ renderLog = <<>>
    /\ download = 0
    /\ runError = ""

PhotoStep == \E files \in PhotoBatches : HandlePhotoFiles(files)

PhotoLoadStep == \E j \in 1..Len(photoJobs) : PhotoFilesLoaded(j)

NextPhotos ==
    \/ Budget("photos", MaxPhotos) /\ PhotoStep
    \/ Budget("uploads", MaxUploads) /\ UploadStep
    \/ (PhotoLoadStep \/ UploadLoadStep) /\ UNCHANGED used

SpecPhotos == InitPhotos /\ [][NextPhotos]_vars

\* -------------------------------------------- specification of record updates
\* The session after a sheet with a photo column has been imported and one of its
\* records has been selected: the selected record is edited or given a photo from
\* the preview, before, during and after an export run.
EditRows == {
    << <<"A">>, <<"S", "1">>, <<>> >>,
    << <<"A">>, <<"S", "1">>, <<"u">> >> }

EditSheets == UNION {[1..n -> EditRows] : n \in 1..MaxRows}

InitEdit ==
    /\ \E rows \in EditSheets : records = ParseExcelOrCSV(PhotoSheetOf(rows), 0).records
    /\ photos = <<>>
    /\ \E k \in 1..Len(records) : selectedRecordId = records[k].id
    /\ dataJobs = <<>>
    /\ photoJobs = <<>>
    /\ photoUploads = <<>>
    /\ importBusy = FALSE
    /\ lastNow = 0
    /\ dataToast = "none"
    /\ csvLine = NoLine
    /\ isEditing = FALSE
    /\ editedFields = NoFields
    /\ used = [imports |-> 1, runs |-> 0, edits |-> 0, photos |-> 0, uploads |-> 0]
    /\ isProcessing = FALSE
    /\ progress = ProgressOf(0, 0, "validating")
    /\ validationResult = <<>>
    /\ currentRenderIndex = 0
    /\ pc = "idle"
    /\ runRecords = <<>>
    /\ updatedRecords = <<>>
    /\ generatedImages = <<>>
    /\ successfulCards = <<>>
    /\ loopIndex = 0
    /\ reports = <<>>
    /\ renderLog = <<>>
    /\ download = 0
    /\ runError = ""

NextEdit ==
    \/ Budget("edits", MaxEdits) /\ (EditStep \/ UploadStep)
    \/ Budget("runs", MaxEditRuns) /\ HandleSaveNow
    \/ (UploadLoadStep \/ RenderStep) /\ UNCHANGED used

SpecEdit == InitEdit /\ [][NextEdit]_vars


\* the effect of one update of the record with this id on the list: the records with
\* this id become pending and keep id, rowIndex and (when no photo is supplied) photo;
\* the others, and the order, stay as they were
UpdatedAs(recordId, photoGiven) ==
    /\ Len(records') = Len(records)
    /\ \A k \in 1..Len(records) :
        IF records[k].id = recordId
        THEN /\ records'[k].status = "pending"
             /\ records'[k].id = records[k].id
             /\ records'[k].rowIndex = records[k].rowIndex
             /\ photoGiven \/ records'[k].profilePhoto = records[k].profilePhoto
        ELSE records'[k] = records[k]

\* C13: an update of a record (an edit saved from the preview, or a photo chosen in
\* the preview once its read has completed) sets that record's status to pending
\* whatever it was, keeps its id and rowIndex, keeps its photo when none is supplied,
\* and leaves every other record and the order of the list unchanged.
UpdateTouchesOneRecord ==
    [][ /\ EditStep => UpdatedAs(selectedRecordId, FALSE)
        /\ \A j \in 1..Len(photoUploads) :
               PhotoUploadLoaded(j) => UpdatedAs(photoUploads[j].recordId, TRUE) ]_vars

\* an edited record that had been generated and carries its inline photo, next to a
\* record that is still generated
UpdateTouchesOneRecordWitness ==
    /\ used.edits = 1
    /\ Len(photoUploads) = 0
    /\ \E k \in 1..Len(records) : \E j \in 1..Len(records) :
        /\ records[k].status = "pending"
        /\ records[k].generatedImage # <<>>
        /\ records[k].profilePhoto = <<"u">>
        /\ records[j].status = "generated"


\* C14: when an import completes successfully, the record list is the list as it
\* stood immediately before the completion followed by the newly parsed records in
\* file order, whatever happened while the file was being read.
ImportAppendsToCurrentList ==
    [][ \A j \in 1..Len(dataJobs) : \A t \in lastNow..MaxClock :
            LET parsed == ParseExcelOrCSV(DataFiles[dataJobs[j].file], t)
            IN (DataFileLoaded(j, t) /\ parsed.ok /\ Len(parsed.records) > 0)
               => records' = MatchEffect(records \o parsed.records, photos) ]_vars


\* C16: after any sequence of imports, all records of the list have pairwise distinct ids.
RecordIdsDistinct ==
    \A k \in 1..Len(records) : \A j \in 1..Len(records) :
        records[k].id = records[j].id => k = j


\* ------------------------------------------- specification of failed imports
\* The session after a sheet has been imported and a photo batch has been
\* uploaded and matched: imports of files that load and of files that fail (wrong
\* extension, header only, no row left after the empty rows are skipped), by the file
\* input and by drag and drop, interleaved with edits of the selected record.
InitImport ==
    /\ \E f \in {"p1", "p2"} : photos = <<PhotoMappingOf(f)>>
    /\ \E n \in 1..MaxRows : records = MatchEffect(ParseExcelOrCSV(SheetOf(n), 0).records, photos)
    /\ selectedRecordId = AutoSelect(records, Null)
    /\ dataJobs = <<>>
    /\ photoJobs = <<>>
    /\ photoUploads = <<>>
    /\ importBusy = FALSE
    /\ lastNow = 0
    /\ dataToast = "imported"
    /\ csvLine = NoLine
    /\ isEditing = FALSE
    /\ editedFields = NoFields
    /\ used = [imports |-> 1, runs |-> 0, edits |-> 0, photos |-> 1, uploads |-> 0]
    /\ isProcessing = FALSE
    /\ progress = ProgressOf(0, 0, "validating")
    /\ validationResult = <<>>
    /\ currentRenderIndex = 0
    /\ pc = "idle"
    /\ runRecords = <<>>
    /\ updatedRecords = <<>>
    /\ generatedImages = <<>>
    /\ successfulCards = <<>>
    /\ loopIndex = 0
    /\ reports = <<>>
    /\ renderLog = <<>>
    /\ download = 0
    /\ runError = ""

FileStep ==
    \E f \in DataFileNames : Room(f, MaxRecords) /\ (UploadDataFile(f) \/ HandleDataDrop(f))

NextImport ==
    \/ Budget("imports", MaxImports) /\ FileStep
    \/ Budget("edits", MaxEdits) /\ EditStep
    \/ LoadStep /\ UNCHANGED used

SpecImport == InitImport /\ [][NextImport]_vars

\* the toasts of handleDataFile that report an error
ErrorToasts == {"invalidExtension", "parseError", "noRecords"}

\* what a failed import attempt leaves behind: an error toast, and the panel, the
\* exporter and the other reads as they were
FailedAttempt == dataToast' \in ErrorToasts /\ UNCHANGED <<panelVars, photoJobs, photoUploads, exporterVars>>

\* C15: an import attempt that fails (extension other than .csv/.xlsx/.xls, fewer than
\* two rows, or no record left after the empty rows are skipped) reports an error and
\* leaves records, photos and selection exactly as they were; no read is left pending
\* for it and the file input is enabled again, so later imports and exports proceed.
FailedImportChangesNothing ==
    [][ /\ \A f \in DataFileNames :
               (HandleDataFile(f) /\ DataFiles[f].ext \notin ValidExtensions)
               => (FailedAttempt /\ UNCHANGED <<dataJobs, importBusy>>)
        /\ \A j \in 1..Len(dataJobs) : \A t \in {lastNow'} :
               LET parsed == ParseExcelOrCSV(DataFiles[dataJobs[j].file], t)
               IN (dataJobs' = RemoveAt(dataJobs, j) /\ DataFileLoaded(j, t)
                   /\ (~parsed.ok \/ Len(parsed.records) = 0))
                  => (FailedAttempt /\ ~importBusy') ]_vars

\* a failed attempt has been reported while records, photos and a selection exist,
\* and a photo has been matched
FailedImportChangesNothingWitness ==
    /\ dataToast \in {"parseError", "noRecords"}
    /\ Len(records) > 0
    /\ Len(photos) > 0
    /\ selectedRecordId # Null
    /\ \E k \in 1..Len(records) : records[k].photoMatched


\* a step that completes an upload of photo files: one read fewer is pending, which
\* only PhotoFilesLoaded brings about
PhotoLoadDone == Len(photoJobs') = Len(photoJobs) - 1

IdentifiersAgree(a, b) ==
    LET la == ToLowerCase(a)
        lb == ToLowerCase(b)
    IN la = lb \/ Includes(la, lb) \/ Includes(lb, la)

AgreeingPhotos(rec, phs) ==
    {n \in 1..Len(phs) : IdentifiersAgree(phs[n].studentId, StudentIdOf(rec))}

\* C18: after the matcher has run on non-empty records and photos, every record that
\* had no photo and whose identifier is non-empty and agrees (ignoring case: equal,
\* substring or superstring) with some uploaded photo's identifier has the image of the
\* first such photo and photoMatched = true; every other record that had no photo still
\* has none, with photoMatched unchanged.
MatcherAssignsFirstAgreeingPhoto ==
    [][ (PhotoLoadDone /\ Len(photos') > 0 /\ Len(records) > 0) =>
            \A k \in 1..Len(records) :
                records[k].profilePhoto = Null =>
                    LET agreeing == AgreeingPhotos(records[k], photos')
                    IN IF StudentIdOf(records[k]) # <<>> /\ agreeing # {}
                       THEN LET first == CHOOSE n \in agreeing : \A m \in agreeing : n <= m
                            IN /\ records'[k].profilePhoto = photos'[first].photoUrl
                               /\ records'[k].photoMatched
                       ELSE /\ records'[k].profilePhoto = Null
                            /\ records'[k].photoMatched = records[k].photoMatched ]_vars

\* two photos agree with a record's identifier, the record has the first one's image
\* and differs from it in letter case; a record with an empty identifier and a record
\* that agrees with no photo have none
MatcherAssignsFirstAgreeingPhotoWitness ==
    /\ Len(photos) = 2
    /\ \E k \in 1..Len(records) :
        /\ AgreeingPhotos(records[k], photos) = {1, 2}
        /\ photos[1].studentId # StudentIdOf(records[k])
        /\ records[k].profilePhoto = photos[1].photoUrl
        /\ records[k].photoMatched
    /\ \E k \in 1..Len(records) :
        /\ AgreeingPhotos(records[k], photos) = {}
        /\ records[k].profilePhoto = Null
        /\ ~records[k].photoMatched

\* C19: the matcher converges after one update: when an upload of photo files completes
\* the list becomes one pass of the matcher over it, and a further pass over the result
\* with the same photos changes nothing, so no further update or notification follows.
MatcherConvergesInOnePass ==
    [][ (PhotoLoadDone /\ Len(photos') > 0 /\ Len(records) > 0) =>
            LET again == MatchPass(records', photos')
            IN /\ records' = MatchPass(records, photos')
               /\ ~HasChanges(again, records')
               /\ again = records' ]_vars

\* two records have been given a photo by the same pass
MatcherConvergesInOnePassWitness ==
    /\ Len(photoJobs) = 0
    /\ Len(photoUploads) = 0
    /\ used.uploads = 0
    /\ Len(photos) > 0
    /\ \E k \in 1..Len(records) : \E j \in 1..Len(records) :
        k # j /\ records[k].photoMatched /\ records[j].photoMatched

\* C20: a record has photoMatched = true only if its current photo is the image of an
\* uploaded photo file, put there by the matcher; a photo from the inline column or from
\* the preview's photo input goes with photoMatched = false.
PhotoMatchedOnlyByMatcher ==
    \A k \in 1..Len(records) :
        records[k].photoMatched =>
            \E f \in PhotoFileNames : records[k].profilePhoto = PhotoFiles[f].photoUrl


\* how often a value occurs in a sequence
Occurrences(seq, x) == Cardinality({i \in 1..Len(seq) : seq[i] = x})

\* the rows some diagnostic of the validator can name
RowNumbers(recs) == {recs[k].rowIndex : k \in 1..Len(recs)}

\* the records of a row that lack a name, and those that lack a photo
NamelessAt(recs, n) == {k \in 1..Len(recs) : recs[k].rowIndex = n /\ Blank(NameOf(recs[k]))}

PhotolessAt(recs, n) == {k \in 1..Len(recs) : recs[k].rowIndex = n /\ recs[k].profilePhoto = Null}

\* C21: the result Save Now gets from the validator has one 'Row N: Missing name' error
\* for each record whose name is absent or blank and no other error, is valid exactly
\* when there is no such record, has one warning for each record without a photo, and
\* counts photosMatched + photosMissing = recordsValidated = number of records; a missing
\* photo alone never makes it invalid, and validating changes no record.
ValidatorReportsNamesAndPhotos ==
    [][ HandleSaveNow =>
            LET v == validationResult'[1]
                nameless == {k \in 1..Len(records) : Blank(NameOf(records[k]))}
                photoless == {k \in 1..Len(records) : records[k].profilePhoto = Null}
            IN /\ Len(v.errors) = Cardinality(nameless)
               /\ \A n \in RowNumbers(records) :
                      Occurrences(v.errors, n) = Cardinality(NamelessAt(records, n))
               /\ v.isValid <=> nameless = {}
               /\ Len(v.warnings) = Cardinality(photoless)
               /\ \A n \in RowNumbers(records) :
                      Occurrences(v.warnings, n) = Cardinality(PhotolessAt(records, n))
               /\ v.photosMissing = Cardinality(photoless)
               /\ v.photosMatched + v.photosMissing = v.recordsValidated
               /\ v.recordsValidated = Len(records)
               /\ ~v.isValid => records' = records
               /\ v.isValid => runRecords' = records ]_vars

\* a result with one error and one warning for a list in which one record has a photo
ValidatorReportsNamesAndPhotosWitness ==
    /\ validationResult # <<>>
    /\ Len(validationResult[1].errors) = 1
    /\ Len(validationResult[1].warnings) = 1
    /\ validationResult[1].photosMatched = 1
    /\ ~validationResult[1].isValid


\* C22: removing a record deletes exactly that record, keeps the others unchanged and
\* in order, and leaves the selection empty when the removed record was the selected
\* one, unchanged when it was not.
RemoveDeletesOneAndClearsSelection ==
    [][ \A k \in 1..Len(records) :
            HandleRemoveRecord(k) =>
                /\ records' = RemoveAt(records, k)
                /\ selectedRecordId' = IF selectedRecordId = records[k].id
                                       THEN Null
                                       ELSE selectedRecordId ]_vars


\* C23: while an export run is in progress, in the validating, generating and
\* packaging phases alike, remove-record and clear-all are disabled: the flag that
\* disables them is set, so the record list cannot shrink during a run.
RemovalDisabledDuringRun == isProcessing => PanelBusy


\* --------------------------------------- specification of terminating runs
\* Export runs as in SpecRun, under the assumption that every render and every archive
\* call eventually returns or fails: a settling step that stays possible is taken.
SettleStep == RenderStep /\ UNCHANGED used

SpecLive == InitRun /\ [][NextRun]_vars /\ WF_vars(SettleStep)

\* C24: every export run terminates: the busy flag of the exporter always returns to
\* false with the exporter idle, on the validation failure, zero-success, archive
\* failure and success paths alike, and a run that reaches packaging or ends after its
\* loop has rendered each record of the list exactly once.
RunTerminates ==
    /\ isProcessing ~> (~isProcessing /\ pc = "idle")
    /\ [](pc = "packaging" =>
            /\ Len(renderLog) = Len(runRecords)
            /\ \A k \in 1..Len(renderLog) : renderLog[k].index = k)

\* a run over two or more records has ended after an archive failure, and the exporter
\* is idle again
RunTerminatesWitness ==
    /\ ~isProcessing
    /\ pc = "idle"
    /\ runError = "zip"
    /\ Len(renderLog) >= 2
    /\ \E k \in 1..Len(renderLog) : ~renderLog[k].success


\* ------------------------------------------- specification of the tokenizer
\* The CSV tokenizer applied to every line of at most MaxLineLen characters over a
\* letter, the comma, the double quote and the space.
CsvChars == {"a", ",", "\"", " "}

CsvLines == UNION {[1..n -> CsvChars] : n \in 0..MaxLineLen}

InitCsv ==
    /\ records = <<>>
    /\ photos = <<>>
    /\ selectedRecordId = Null
    /\ dataJobs = <<>>
    /\ photoJobs = <<>>
    /\ photoUploads = <<>>
    /\ importBusy = TRUE
    /\ lastNow = 0
    /\ dataToast = "none"
    /\ \E line \in CsvLines : csvLine = StartLine(line)
    /\ isEditing = FALSE
    /\ editedFields = NoFields
    /\ used = [imports |-> 1, runs |-> 0, edits |-> 0, photos |-> 0, uploads |-> 0]
    /\ isProcessing = FALSE
    /\ progress = ProgressOf(0, 0, "validating")
    /\ validationResult = <<>>
    /\ currentRenderIndex = 0
    /\ pc = "idle"
    /\ runRecords = <<>>
    /\ updatedRecords = <<>>
    /\ generatedImages = <<>>
    /\ successfulCards = <<>>
    /\ loopIndex = 0
    /\ reports = <<>>
    /\ renderLog = <<>>
    /\ download = 0
    /\ runError = ""

NextCsv == ReadChar \/ EndOfLine

SpecCsv == InitCsv /\ [][NextCsv]_vars

NotDoubleQuote(c) == c # "\""

\* the positions of a line at which it is split: the commas preceded by an even number
\* of double quotes
QuotesBefore(line, i) == Cardinality({j \in 1..(i - 1) : line[j] = "\""})

SplitPoints(line) == {i \in 1..Len(line) : line[i] = "," /\ QuotesBefore(line, i) % 2 = 0}

\* the k-th smallest element of a set of positions
NthPoint(points, k) == CHOOSE i \in points : Cardinality({j \in points : j < i}) = k - 1

\* the characters of cell k: those between split point k - 1 and split point k
CellText(line, k) ==
    LET points == SplitPoints(line)
        from == IF k = 1 THEN 1 ELSE NthPoint(points, k - 1) + 1
        to == IF k = Cardinality(points) + 1 THEN Len(line) ELSE NthPoint(points, k) - 1
    IN SubSeq(line, from, to)

\* C25: the tokenizer splits a line only at the commas outside double quotes: the
\* number of cells is one plus the number of such commas, no cell contains a double
\* quote, and each cell is the text between two split points without its quotes and
\* without surrounding blanks, so a comma inside quotes stays in its cell.
TokenizerSplitsAtUnquotedCommas ==
    csvLine.done =>
        LET line == csvLine.line
            values == csvLine.values
        IN /\ Len(values) = Cardinality(SplitPoints(line)) + 1
           /\ \A k \in 1..Len(values) :
                /\ \A i \in 1..Len(values[k]) : values[k][i] # "\""
                /\ values[k] = Trim(SelectSeq(CellText(line, k), NotDoubleQuote))

\* a line with a quoted comma and an unquoted one has been split into two cells, the
\* first of which holds the quoted comma
TokenizerSplitsAtUnquotedCommasWitness ==
    /\ csvLine.done
    /\ Cardinality(SplitPoints(csvLine.line)) = 1
    /\ Len(csvLine.values) = 2
    /\ \E i \in 1..Len(csvLine.values[1]) : csvLine.values[1][i] = ","


\* C26: the exporter's progress updates never revert other changes: a step of a run
\* (a render or the archive settling) leaves the list as long as it was and leaves the
\* fields and the photo of every record as they were, so an edit applied while the
\* run is generating is still in the list after the run.
ExporterKeepsEdits ==
    [][ RenderStep =>
            /\ Len(records') = Len(records)
            /\ \A k \in 1..Len(records) :
                /\ records'[k].id = records[k].id
                /\ records'[k].fields = records[k].fields
                /\ records'[k].profilePhoto = records[k].profilePhoto ]_vars


\* -------------------------------------------- specification of the edit form
\* The edit form of the preview, step by step (Edit, typing, Cancel, Save), on a sheet
\* whose records differ, with the selection moved by click, buttons and arrow keys at
\* any time.
FormStep ==
    \/ StartEditing
    \/ \E key \in DOMAIN EditValues : \E value \in EditValues[key] : HandleFieldChange(key, value)
    \/ CancelEditing
    \/ SaveEditedFields

NextForm ==
    \/ FormStep /\ UNCHANGED used
    \/ SelectStep /\ UNCHANGED used

SpecForm == InitPhotos /\ [][NextForm]_vars

\* C27: saving an edit writes field values that were entered for the record it changes:
\* the form edits the name only, so the record saved keeps its own roll number, also
\* when the selection moved between Edit and Save, and no other record changes.
SaveWritesOwnFields ==
    [][ SaveEditedFields =>
            /\ Len(records') = Len(records)
            /\ \A k \in 1..Len(records) :
                /\ records'[k].fields.rollNo = records[k].fields.rollNo
                /\ records[k].id # selectedRecordId => records'[k] = records[k] ]_vars


\* C28: when no export run is active no record has status generating, so the busy
\* flag the panel derives from the list is false whenever the exporter is idle.
IdleExporterMeansNoGenerating ==
    (~isProcessing /\ pc = "idle") => ~PanelBusy


\* ------------------------------ specification of photo batches and export runs
\* The session after a sheet with a roll number and a photo column has been imported:
\* export runs are interleaved with batches of photo files, which the matcher
\* attaches to the records of the list.
NextMatch ==
    \/ Budget("runs", MaxRuns) /\ HandleSaveNow
    \/ Budget("photos", MaxPhotos) /\ PhotoStep
    \/ RenderStep /\ UNCHANGED used
    \/ PhotoLoadStep /\ UNCHANGED used

SpecMatch == InitPhotos /\ [][NextMatch]_vars

\* C29: a record with status generated is never stale: its generatedImage was rendered
\* from the fields and the profilePhoto the record has now.
GeneratedNeverStale ==
    \A k \in 1..Len(records) :
        records[k].status = "generated" => records[k].generatedImage = <<Png(records[k])>>


\* ------------------------------------------ specification of dropped files
\* Data files are dropped on the import panel, which accepts a file while another is
\* still being read; the records are selected and removed in between.
NextDrop ==
    \/ \E f \in GoodFiles : Room(f, MaxRecords) /\ Budget("imports", MaxImports) /\ HandleDataDrop(f)
    \/ LoadStep /\ UNCHANGED used
    \/ SelectStep /\ UNCHANGED used
    \/ RemoveStep /\ UNCHANGED used

SpecDrop == Init /\ [][NextDrop]_vars

\* C30: the selection is empty or the id of a record of the list, and some record is
\* selected whenever the list is not empty.
SelectionInList ==
    /\ selectedRecordId = Null \/ \E k \in 1..Len(records) : records[k].id = selectedRecordId
    /\ Len(records) > 0 => selectedRecordId # Null

====
